---- MODULE Spec2Model ----
(***************************************************************************)
(* The location relay of backend/server.js: a socket.io server whose only  *)
(* application code is the "connection" listener, which installs a         *)
(* "driverLocation" listener (relay the payload to every other connected   *)
(* socket with socket.broadcast.emit) and a "disconnect" listener (a log   *)
(* line).  The set of connected sockets, the per-socket ordered channels   *)
(* and the close handling are those of the socket.io server the code is    *)
(* written against; Node runs every listener to completion, so each        *)
(* listener is one atomic action.                                          *)
(***************************************************************************)
EXTENDS Integers, Sequences, FiniteSets, TLC

\* ------------------------------------------------------------- bounds
NConn == 3          \* client connections that ever reach the server
MaxEvents == 2      \* driverLocation events the clients send in one run
QueueCap == 1       \* capacity the specification gives a recipient's queue

MaxPort == 60       \* largest value the environment gives PORT
NPoints == 2        \* map positions a click or a search can yield
MaxOutstanding == 2 \* route fetches in flight at one time

Conns == 1..NConn

\* ------------------------------------------------------------- payloads
\* A coordinate as it arrives after decoding: a number, or absent.
Num(n) == [t |-> "number", v |-> n]
Absent == [t |-> "undefined", v |-> 0]

\* The payloads the clients send: one well-formed report, and one with a
\* latitude of 200 and no longitude.
Payloads ==
  { [lat |-> Num(28), lng |-> Num(77)],
    [lat |-> Num(200), lng |-> Absent] }

VARIABLES
  state,          \* state[c]: "Connecting", "Active" or "Closed"
  registry,       \* the sockets the server holds as connected
  downlink,       \* downlink[c]: packets emitted to c, not yet received
  observed,       \* observed[c]: packets client c has received, in order
  clock,          \* driverLocation events handled so far
  disconnectLog   \* disconnectLog[c]: runs of the "disconnect" listener

vars == <<state, registry, downlink, observed, clock,
          disconnectLog>>

\* The start of the server process.
VARIABLES
  envPort,        \* process.env.PORT: Unset, or a port number
  entryFile,      \* the server file that is run
  listenPort      \* the port the server listens on, NotListening before

portVars == <<envPort, entryFile, listenPort>>

\* The client: the state of the App component of frontend/src/App.jsx.
VARIABLES
  pickup,         \* a map position, or Null
  drop,           \* a map position, or Null
  route,          \* the polyline drawn, <<>> when there is none
  info,           \* <<distance, duration>> of the route, <<>> for null
  isLoadingRoute,
  effectPending,  \* pickup or drop was set and the effect has not run yet
  fetches,        \* the route fetches in flight, in the order they started
  anyFailed       \* some fetch so far threw or returned no route

appVars == <<pickup, drop, route, info, isLoadingRoute, effectPending,
             fetches, anyFailed>>

DefaultPort == 5001
Unset == 0
NotListening == 0
ServerJs == "backend/server.js"
Part000 == "unnamed/part_000"

Null == 0
Points == 1..NPoints

\* The server as the relay sees it: backend/server.js listening on its port.
PortStarted ==
  /\ envPort = Unset
  /\ entryFile = ServerJs
  /\ listenPort = DefaultPort

\* The App right after it is mounted: the effect of the first render is
\* still to run.
AppMounted ==
  /\ pickup = Null
  /\ drop = Null
  /\ route = <<>>
  /\ info = <<>>
  /\ isLoadingRoute = FALSE
  /\ effectPending = TRUE
  /\ fetches = <<>>
  /\ anyFailed = FALSE

Init ==
  /\ state = [c \in Conns |-> "Connecting"]
  /\ registry = {}
  /\ downlink = [c \in Conns |-> <<>>]
  /\ observed = [c \in Conns |-> <<>>]
  /\ clock = 0
  /\ disconnectLog = [c \in Conns |-> 0]
  /\ PortStarted
  /\ AppMounted

\* ------------------------------------------------------------- helpers
\* The server adds the socket to its connected set before it runs the
\* "connection" listener.
RegistryAdd(c) == registry \cup {c}

RegistryRemoveNothing(c) == registry

RegistryRemoveAll(c) == {}

\* The server drops the socket from its connected set before it runs the
\* "disconnect" listener.
RegistryRemove(c) == registry \ {c}

RecipientsWithOrigin(x) == registry

RecipientsEverConnected(x) == {c \in Conns : state[c] # "Connecting"} \ {x}

RecipientsSkipsOne(x) ==
  LET others == registry \ {x}
  IN IF others = {} THEN others
     ELSE others \ {CHOOSE r \in others : \A q \in others : q <= r}

\* socket.broadcast: every connected socket except the sender.
Recipients(x) == registry \ {x}

EmitArgsSwapped(data) == [data EXCEPT !.lat = data.lng, !.lng = data.lat]

\* The arguments of emit("driverLocationUpdate", data): the payload as the
\* listener received it.
EmitArgs(data) == data

EnqueueFront(q, pkt) == <<pkt>> \o q

EnqueueDropOldest(q, pkt) ==
  IF Len(q) >= QueueCap THEN Append(Tail(q), pkt) ELSE Append(q, pkt)

\* emit writes the packet behind whatever is still pending for the socket.
Enqueue(q, pkt) == Append(q, pkt)

CanHandleWhenDrained(x) ==
  /\ state[x] = "Active"
  /\ \A r \in Recipients(x) : Len(downlink[r]) < QueueCap

\* The "driverLocation" listener is installed on every connected socket and
\* runs whenever an event of that socket arrives.
CanHandle(x) == state[x] = "Active"

FiresDisconnectAlways(c) == state[c] # "Connecting"

\* The "disconnect" listener runs for a socket that is still connected; a
\* close signal for any other socket is absorbed.
FiresDisconnect(c) == state[c] = "Active"

IsNewSocketOrClosed(c) == state[c] # "Active"

\* Every socket that reaches the "connection" listener has a freshly
\* generated socket.id: an id is handed out once.
IsNewSocket(c) == state[c] = "Connecting"

\* What the observation log keeps of a received packet: who sent the event
\* and its number.
Seen(pkt) == [origin |-> pkt.origin, seq |-> pkt.seq]

\* ------------------------------------------------------------- actions
\* io.on("connection"): the handshake of c has completed.
Connection(c) ==
  /\ IsNewSocket(c)
  /\ state' = [state EXCEPT ![c] = "Active"]
  /\ registry' = RegistryAdd(c)
  /\ UNCHANGED <<downlink, observed, clock,
                 disconnectLog>>
  /\ UNCHANGED <<portVars, appVars>>

\* socket.on("driverLocation"): an event of x arrives with payload d and is
\* relayed.  seq numbers the events in the order they arrive.
DriverLocation(x, d) ==
  /\ CanHandle(x)
  /\ clock < MaxEvents
  /\ clock' = clock + 1
  /\ LET pkt == [origin |-> x, data |-> EmitArgs(d), seq |-> clock + 1]
     IN downlink' = [r \in Conns |->
                       IF r \in Recipients(x) THEN Enqueue(downlink[r], pkt)
                       ELSE downlink[r]]
  /\ UNCHANGED <<state, registry, observed, disconnectLog>>
  /\ UNCHANGED <<portVars, appVars>>

\* Client r takes the next packet off its connection.
Receive(r) ==
  /\ state[r] = "Active"
  /\ downlink[r] # <<>>
  /\ observed' = [observed EXCEPT ![r] = Append(@, Seen(Head(downlink[r])))]
  /\ downlink' = [downlink EXCEPT ![r] = Tail(@)]
  /\ UNCHANGED <<state, registry, clock,
                 disconnectLog>>
  /\ UNCHANGED <<portVars, appVars>>

\* A close signal for c: the client closed, the transport failed, or the
\* same close is reported once more.
Close(c) ==
  /\ IF FiresDisconnect(c)
     THEN /\ state' = [state EXCEPT ![c] = "Closed"]
          /\ registry' = RegistryRemove(c)
          /\ downlink' = [downlink EXCEPT ![c] = <<>>]
          /\ disconnectLog' = [disconnectLog EXCEPT ![c] = @ + 1]
          /\ UNCHANGED <<observed, clock>>
     ELSE /\ state' = [state EXCEPT ![c] = "Closed"]
          /\ UNCHANGED <<registry, downlink, observed, clock,
                         disconnectLog>>
  /\ UNCHANGED <<portVars, appVars>>

Next ==
  \/ \E c \in Conns : Connection(c)
  \/ \E x \in Conns : \E d \in Payloads : DriverLocation(x, d)
  \/ \E r \in Conns : Receive(r)
  \/ \E c \in Conns : Close(c)

Spec == Init /\ [][Next]_vars

\* ------------------------------------------------------------- server start
\* No connection has reached the server yet.
RelayIdle ==
  /\ state = [c \in Conns |-> "Connecting"]
  /\ registry = {}
  /\ downlink = [c \in Conns |-> <<>>]
  /\ observed = [c \in Conns |-> <<>>]
  /\ clock = 0
  /\ disconnectLog = [c \in Conns |-> 0]

\* backend/server.js: const PORT = 5001.
PortOfServerJs(env) == DefaultPort

\* unnamed/part_000: const PORT = process.env.PORT || 5001.
PortOfPart000(env) == IF env # Unset THEN env ELSE DefaultPort

\* server.listen(PORT, ...) of the file that is run.
Listen ==
  /\ listenPort = NotListening
  /\ listenPort' = IF entryFile = ServerJs THEN PortOfServerJs(envPort)
                   ELSE PortOfPart000(envPort)
  /\ UNCHANGED <<envPort, entryFile>>
  /\ UNCHANGED <<vars, appVars>>

InitPort ==
  /\ RelayIdle
  /\ AppMounted
  /\ envPort \in {Unset} \cup (1..MaxPort)
  /\ entryFile \in {ServerJs, Part000}
  /\ listenPort = NotListening

NextPort == Listen

SpecPort == InitPort /\ [][NextPort]_portVars

\* ------------------------------------------------------------- client App
\* The position of a map point.
LatOf(pt) == 20 + pt
LngOf(pt) == 70 + pt

Abs(n) == IF n < 0 THEN 0 - n ELSE n

\* What the routing service answers for the URL built from pickup and drop:
\* the geometry as [lng, lat] pairs, a distance in metres, a duration in
\* seconds.
OsrmRoute(p, d) ==
  [coordinates |-> << <<LngOf(p), LatOf(p)>>, <<LngOf(d), LatOf(d)>> >>,
   distance |-> 1240 * Abs(p - d) + 360,
   duration |-> 95 * Abs(p - d) + 40]

\* coord => [coord[1], coord[0]] over the geometry.
RouteCoords(routeData) ==
  [i \in 1..Len(routeData.coordinates) |->
     <<routeData.coordinates[i][2], routeData.coordinates[i][1]>>]

\* distance: (metres / 1000).toFixed(1), kept in tenths of a kilometre;
\* duration: Math.round(seconds / 60).
RouteInfo(routeData) ==
  <<(routeData.distance + 50) \div 100, (routeData.duration + 30) \div 60>>

ClickResultDropFirst(pt) ==
  IF pickup = Null THEN <<pt, drop>>
  ELSE IF drop = Null THEN <<pickup, pt>>
  ELSE <<Null, pt>>

\* The click handler of LocationMarkers: the new <<pickup, drop>>.
ClickResult(pt) ==
  IF pickup = Null THEN <<pt, drop>>
  ELSE IF drop = Null THEN <<pickup, pt>>
  ELSE <<pt, Null>>

FetchedRouteOrNone(f, outcome) ==
  IF outcome = "ok" THEN RouteCoords(OsrmRoute(f.pickup, f.drop)) ELSE <<>>

\* The route after a fetch ends: set from the answer when it has a route,
\* left alone when the fetch threw or the answer has none.
FetchedRoute(f, outcome) ==
  IF outcome = "ok" THEN RouteCoords(OsrmRoute(f.pickup, f.drop)) ELSE route

\* The info after a fetch ends, likewise.
FetchedInfo(f, outcome) ==
  IF outcome = "ok" THEN RouteInfo(OsrmRoute(f.pickup, f.drop)) ELSE info

Outcomes == {"ok", "empty", "error"}

Without(q, i) == SubSeq(q, 1, i - 1) \o SubSeq(q, i + 1, Len(q))

\* The user can act when the effect of the last render has run.
CanAct == ~effectPending /\ Len(fetches) < MaxOutstanding

\* A click on the map at pt.
MapClick(pt) ==
  /\ CanAct
  /\ pickup' = ClickResult(pt)[1]
  /\ drop' = ClickResult(pt)[2]
  /\ effectPending' = TRUE
  /\ UNCHANGED <<route, info, isLoadingRoute, fetches, anyFailed>>
  /\ UNCHANGED <<vars, portVars>>

\* A search result chosen in the pickup box: onSelect = setPickup.
SelectPickup(pt) ==
  /\ CanAct
  /\ pickup' = pt
  /\ effectPending' = TRUE
  /\ UNCHANGED <<drop, route, info, isLoadingRoute, fetches, anyFailed>>
  /\ UNCHANGED <<vars, portVars>>

\* A search result chosen in the destination box: onSelect = setDrop.
SelectDrop(pt) ==
  /\ CanAct
  /\ drop' = pt
  /\ effectPending' = TRUE
  /\ UNCHANGED <<pickup, route, info, isLoadingRoute, fetches, anyFailed>>
  /\ UNCHANGED <<vars, portVars>>

\* clearAll, behind the Clear button shown while pickup or drop is set.
ClearAll ==
  /\ CanAct
  /\ pickup # Null \/ drop # Null
  /\ pickup' = Null
  /\ drop' = Null
  /\ route' = <<>>
  /\ info' = <<>>
  /\ effectPending' = TRUE
  /\ UNCHANGED <<isLoadingRoute, fetches, anyFailed>>
  /\ UNCHANGED <<vars, portVars>>

\* useEffect on [pickup, drop]: start fetchRoute when both are set, clear
\* route and info otherwise.
RunEffect ==
  /\ effectPending
  /\ effectPending' = FALSE
  /\ IF pickup # Null /\ drop # Null
     THEN /\ isLoadingRoute' = TRUE
          /\ fetches' = Append(fetches, [pickup |-> pickup, drop |-> drop])
          /\ UNCHANGED <<route, info>>
     ELSE /\ route' = <<>>
          /\ info' = <<>>
          /\ UNCHANGED <<isLoadingRoute, fetches>>
  /\ UNCHANGED <<pickup, drop, anyFailed>>
  /\ UNCHANGED <<vars, portVars>>

\* fetchRoute after its awaits: the i-th fetch in flight ends with outcome.
FetchDone(i, outcome) ==
  /\ ~effectPending
  /\ i \in 1..Len(fetches)
  /\ route' = FetchedRoute(fetches[i], outcome)
  /\ info' = FetchedInfo(fetches[i], outcome)
  /\ isLoadingRoute' = FALSE
  /\ fetches' = Without(fetches, i)
  /\ anyFailed' = (anyFailed \/ outcome # "ok")
  /\ UNCHANGED <<pickup, drop, effectPending>>
  /\ UNCHANGED <<vars, portVars>>

\* Relay and server start as the App sees them: untouched.
InitApp == RelayIdle /\ PortStarted /\ AppMounted

ClicksNext ==
  \/ \E pt \in Points : MapClick(pt)
  \/ ClearAll
  \/ RunEffect
  \/ \E i \in 1..MaxOutstanding : \E o \in Outcomes : FetchDone(i, o)

AppNext ==
  \/ ClicksNext
  \/ \E pt \in Points : SelectPickup(pt)
  \/ \E pt \in Points : SelectDrop(pt)

\* The App under every input.
SpecApp == InitApp /\ [][AppNext]_appVars

\* The App under map clicks and clearAll only.
SpecClicks == InitApp /\ [][ClicksNext]_appVars

\* ------------------------------------------------------------- properties
\* The validation rule of the specification: both coordinates are numbers,
\* the latitude within [-90, 90], the longitude within [-180, 180].
IsValid(d) ==
  /\ d.lat.t = "number" /\ d.lng.t = "number"
  /\ d.lat.v >= -90 /\ d.lat.v <= 90
  /\ d.lng.v >= -180 /\ d.lng.v <= 180

Last(q) == q[Len(q)]

\* Everything client r has been sent and not lost: what it observed, then
\* what is still pending for it.
Log(obs, pending) == obs \o [i \in 1..Len(pending) |-> Seen(pending[i])]

IsPrefix(p, q) == Len(p) <= Len(q) /\ SubSeq(q, 1, Len(p)) = p

\* C1: one driverLocation event of x puts exactly one driverLocationUpdate,
\* carrying that event, on the connection of every other active socket and
\* nothing on the connection of x or of a socket that is not active.
C1_BroadcastToOthersOnce ==
  [][clock' # clock =>
     \A x \in Conns : \A d \in Payloads : DriverLocation(x, d) =>
       /\ downlink'[x] = downlink[x]
       /\ \A r \in Conns \ {x} :
            IF state[r] = "Active"
            THEN /\ Len(downlink'[r]) = Len(downlink[r]) + 1
                 /\ SubSeq(downlink'[r], 1, Len(downlink[r])) = downlink[r]
                 /\ Last(downlink'[r]).origin = x
                 /\ Last(downlink'[r]).seq = clock'
            ELSE downlink'[r] = downlink[r]]_vars

\* All connections are active and the first event, sent by x, is pending
\* once on every other connection and not on that of x.
C1_Witness ==
  \E x \in Conns :
    /\ \A c \in Conns : state[c] = "Active"
    /\ clock = 1
    /\ downlink[x] = <<>>
    /\ \A r \in Conns \ {x} :
         Len(downlink[r]) = 1 /\ downlink[r][1].origin = x

\* C2: once a connection is closed nothing is pending for it and nothing is
\* ever again emitted to it or received by it.
C2_NoDeliveryAfterRemoval ==
  [][\A c \in Conns : state[c] = "Closed" =>
       /\ downlink[c] = <<>>
       /\ downlink'[c] = downlink[c]
       /\ observed'[c] = observed[c]]_vars

\* A, B, C were connected, B saw the first event of A and disconnected, and
\* the second event of A went to C only.
C2_Witness ==
  \E a \in Conns : \E b \in Conns \ {a} : \E c \in Conns \ {a, b} :
    /\ state[b] = "Closed" /\ disconnectLog[b] = 1
    /\ observed[b] = <<[origin |-> a, seq |-> 1]>>
    /\ downlink[b] = <<>>
    /\ state[c] = "Active"
    /\ Len(downlink[c]) > 0 /\ Last(downlink[c]).origin = a
    /\ Last(downlink[c]).seq = 2

\* C3: no driverLocationUpdate is emitted for a malformed payload: every
\* pending packet carries a payload that passes validation.
C3_MalformedNeverRelayed ==
  \A r \in Conns : \A i \in 1..Len(downlink[r]) : IsValid(downlink[r][i].data)

\* C4: the packet a valid driverLocation event puts on a recipient's
\* connection carries exactly the payload of that event.
C4_PayloadUnchanged ==
  [][clock' # clock =>
     \A x \in Conns : \A d \in Payloads : (IsValid(d) /\ DriverLocation(x, d)) =>
       \A r \in Conns : downlink'[r] # downlink[r] =>
         Last(downlink'[r]).data = d]_vars

\* A recipient has a valid payload pending, field for field as it was sent.
C4_Witness ==
  \E r \in Conns : \E d \in Payloads :
    /\ IsValid(d)
    /\ Len(downlink[r]) > 0
    /\ Last(downlink[r]).data = d
    /\ Last(downlink[r]).origin # r

\* C5: in what a recipient observes and has pending, two events of the same
\* origin keep the order in which that origin's events arrived.
C5_PerRecipientFifo ==
  \A r \in Conns :
    LET log == Log(observed[r], downlink[r])
    IN \A i \in 1..Len(log) : \A j \in 1..Len(log) :
         (i < j /\ log[i].origin = log[j].origin) => log[i].seq < log[j].seq

\* A recipient has observed two events of one origin.
C5_Witness ==
  \E r \in Conns :
    /\ Len(observed[r]) = 2
    /\ observed[r][1].origin = observed[r][2].origin
    /\ observed[r][1].seq = 1

\* C6: before and after every step the registry holds exactly the active
\* connections, and a step that closes an active connection lowers the
\* registry's size by exactly one.
C6_RegistryIsActiveSet ==
  [][/\ registry = {c \in Conns : state[c] = "Active"}
     /\ registry' = {c \in Conns : state'[c] = "Active"}
     /\ \A c \in Conns : (state[c] = "Active" /\ state'[c] = "Closed") =>
          Cardinality(registry') = Cardinality(registry) - 1]_vars

\* One connection has disconnected, one has not finished its handshake yet,
\* and the registry holds the remaining one.
C6_Witness ==
  \E b \in Conns : \E c \in Conns :
    /\ state[b] = "Closed" /\ disconnectLog[b] = 1
    /\ state[c] = "Connecting"
    /\ Cardinality(registry) = 1

C8_SlowRecipientIsolated ==
  \A x \in Conns : \A d \in Payloads :
    (state[x] = "Active" /\ clock < MaxEvents) =>
      ENABLED (/\ DriverLocation(x, d)
               /\ \A r \in registry \ {x} :
                    Len(downlink'[r]) = Len(downlink[r]) + 1)

\* One recipient has drained nothing and has a backlog at capacity or more
\* while another recipient has already observed the same events.
C8_Witness ==
  \E slow \in Conns : \E r \in Conns \ {slow} :
    /\ observed[slow] = <<>>
    /\ Len(downlink[slow]) >= QueueCap /\ Len(downlink[slow]) = clock
    /\ Len(observed[r]) = clock
    /\ clock > 0

\* C9: a step that closes one connection, or that handles a malformed
\* payload, leaves every other connection's status, registration, pending
\* packets and observations as they were (a malformed payload adds at most
\* the relayed packet).
C9_ErrorsContained ==
  [][/\ \A c \in Conns : (state[c] = "Active" /\ state'[c] = "Closed") =>
          \A o \in Conns \ {c} :
            /\ state'[o] = state[o]
            /\ (o \in registry') = (o \in registry)
            /\ downlink'[o] = downlink[o]
            /\ observed'[o] = observed[o]
     /\ clock' # clock =>
        \A x \in Conns : \A d \in Payloads :
          (~IsValid(d) /\ DriverLocation(x, d)) =>
            /\ state' = state
            /\ registry' = registry
            /\ \A o \in Conns : IsPrefix(downlink[o], downlink'[o])]_vars

\* A connection has failed after a malformed payload was handled, and
\* another connection is still registered with that relay pending.
C9_Witness ==
  \E c \in Conns : \E o \in Conns \ {c} :
    /\ state[c] = "Closed" /\ disconnectLog[c] = 1
    /\ state[o] = "Active" /\ o \in registry
    /\ Len(downlink[o]) > 0
    /\ ~IsValid(Last(downlink[o]).data)

\* C10: a close signal for a connection that is not registered (already
\* closed, or never registered) changes neither the registry, nor the runs
\* of the disconnect listener, nor anything of another connection.
C10_CloseIdempotent ==
  [][\A c \in Conns : (state[c] # "Active" /\ Close(c)) =>
       /\ registry' = registry
       /\ disconnectLog' = disconnectLog
       /\ downlink' = downlink
       /\ observed' = observed
       /\ \A o \in Conns \ {c} : state'[o] = state[o]
       /\ state[c] = "Closed" => state'[c] = "Closed"]_vars

\* One connection was closed before it was ever registered, another was
\* registered and closed, and a third is still active with a packet pending.
C10_Witness ==
  \E c \in Conns : \E b \in Conns : \E o \in Conns :
    /\ state[c] = "Closed" /\ disconnectLog[c] = 0
    /\ state[b] = "Closed" /\ disconnectLog[b] = 1
    /\ state[o] = "Active" /\ o \in registry
    /\ downlink[o] # <<>>

\* C11: a closed connection stays closed and its id is in the registry
\* neither before nor after any later step.
C11_ClosedIsTerminal ==
  [][\A c \in Conns : state[c] = "Closed" =>
       /\ state'[c] = "Closed"
       /\ c \notin registry
       /\ c \notin registry']_vars

\* One connection has disconnected, every other connection has connected
\* and all events of the run were relayed since.
C11_Witness ==
  \E c \in Conns :
    /\ state[c] = "Closed" /\ disconnectLog[c] = 1
    /\ observed[c] = <<>>
    /\ \A o \in Conns \ {c} : state[o] = "Active" /\ Len(observed[o]) > 0
    /\ registry = Conns \ {c}
    /\ clock = MaxEvents

\* C12: the sockets a broadcast of x reaches are exactly the registry
\* without x, as it is before and after that step, each reached once; the
\* step changes neither the registry nor any connection's status.
C12_RecipientsAreSnapshot ==
  [][clock' # clock =>
     \A x \in Conns : \A d \in Payloads : DriverLocation(x, d) =>
       LET reached == {r \in Conns : downlink'[r] # downlink[r]}
       IN /\ reached = registry \ {x}
          /\ reached = registry' \ {x}
          /\ state' = state
          /\ \A r \in reached : Len(downlink'[r]) = Len(downlink[r]) + 1]_vars

\* The first broadcast ran after one connection had been added and removed
\* again: it reached the one other registered socket only.
C12_Witness ==
  \E x \in Conns : \E r \in Conns \ {x} : \E b \in Conns :
    /\ state[b] = "Closed" /\ disconnectLog[b] = 1 /\ observed[b] = <<>>
    /\ registry = {x, r}
    /\ clock = 1
    /\ Len(downlink[r]) = 1 /\ downlink[r][1].origin = x
    /\ downlink[x] = <<>>

\* C13: once the server listens, its port is the value of PORT when PORT
\* is set and 5001 when it is unset.
C13_ListensOnEnvPort ==
  listenPort # NotListening =>
    listenPort = (IF envPort # Unset THEN envPort ELSE DefaultPort)

\* C14: whenever pickup or drop is unset and no effect is pending, route is
\* empty and info is null.
C14_NoRouteWithoutEndpoints ==
  ((pickup = Null \/ drop = Null) /\ ~effectPending) =>
    (route = <<>> /\ info = <<>>)

\* C15: once no fetch is in flight, none has failed and no effect is
\* pending, route and info are those of the answer for the current pickup
\* and drop.
C15_RouteIsForCurrentPair ==
  (/\ fetches = <<>> /\ ~anyFailed /\ ~effectPending
   /\ pickup # Null /\ drop # Null) =>
    /\ route = RouteCoords(OsrmRoute(pickup, drop))
    /\ info = RouteInfo(OsrmRoute(pickup, drop))

\* C16: isLoadingRoute is true exactly while at least one route fetch is in
\* flight.
C16_LoadingWhileFetching ==
  isLoadingRoute = (fetches # <<>>)

\* C17: the step in which a fetch ends by throwing or with no route leaves
\* route, info, pickup and drop as they are and sets isLoadingRoute false.
C17_FailedFetchKeepsRoute ==
  [][Len(fetches') < Len(fetches) =>
     \A i \in 1..Len(fetches) : \A o \in {"empty", "error"} :
       FetchDone(i, o) =>
         /\ route' = route
         /\ info' = info
         /\ pickup' = pickup
         /\ drop' = drop
         /\ isLoadingRoute' = FALSE]_appVars

\* A fetch has failed, nothing is in flight, and the route and info of an
\* earlier answer are still there with the loading flag down.
C17_Witness ==
  /\ anyFailed
  /\ fetches = <<>>
  /\ ~effectPending
  /\ route # <<>> /\ info # <<>>
  /\ ~isLoadingRoute
  /\ pickup # Null /\ drop # Null

\* C18: a click with no pickup sets pickup and leaves drop; a click with
\* pickup and no drop sets drop and leaves pickup; a click with both
\* replaces pickup and clears drop; so under clicks and clearAll drop is
\* never set while pickup is unset.
C18_ClickCycle ==
  [][/\ \A pt \in Points : MapClick(pt) =>
          IF pickup = Null THEN pickup' = pt /\ drop' = drop
          ELSE IF drop = Null THEN drop' = pt /\ pickup' = pickup
          ELSE pickup' = pt /\ drop' = Null
     /\ drop # Null => pickup # Null
     /\ drop' # Null => pickup' # Null]_appVars

\* A click has just replaced the pickup and cleared the drop of a pair
\* whose route is still drawn: the effect that clears it is yet to run.
C18_Witness ==
  /\ effectPending
  /\ pickup # Null /\ drop = Null
  /\ route # <<>>
  /\ fetches = <<>> /\ ~anyFailed
  /\ route[1] # <<LatOf(pickup), LngOf(pickup)>>

====
